---------------------------- MODULE Spec2Model ----------------------------
(***************************************************************************)
(* A model of ompl/util/src/Console.cpp: the process-wide logging router   *)
(* (struct DefaultOutputHandler behind getDOH()), the operations of        *)
(* namespace ompl::msg that read and write it under its boost::mutex, and  *)
(* the threads of the host application that call them.                     *)
(***************************************************************************)
EXTENDS Integers, Sequences, FiniteSets, TLC

(***************************************************************************)
(* Bounds of the model.                                                    *)
(***************************************************************************)
\* Number of application threads calling into the router.
NumThreads == 2

\* Number of handler-changing operations remembered by the ghost `trail`.
TrailLen == 3

\* Router calls each thread makes in the runs that start before DOH exists.
MaxFirstCalls == 1

\* Sink calls made on the OutputHandlerFile object in its lifetime.
MaxWrites == 2

Threads == 1..NumThreads

(***************************************************************************)
(* ompl::msg::LogLevel (declared in Console.h): DEBUG < INFO < WARN <      *)
(* ERROR < NONE.                                                           *)
(***************************************************************************)
DEBUG == 0
INFO  == 1
WARN  == 2
ERROR == 3
NONE  == 4

LogLevels == DEBUG..NONE

\* Values a caller can pass as `level` to log(): the five enumerators and an
\* unrecognised value on either side of them.  NONE + 1 stands for every
\* value that compares above NONE, DEBUG - 1 for one that compares below
\* DEBUG (an enumeration with a signed underlying type).
LevelArgs == (DEBUG - 1)..(NONE + 1)

(***************************************************************************)
(* OutputHandler objects.  "std" is DOH.std_output_handler_; "h1" and "h2" *)
(* are handlers owned by the application.  NULL is the null pointer.       *)
(***************************************************************************)
NULL == "NULL"
Handlers == {"std", "h1", "h2"}
HandlerPtrs == Handlers \cup {NULL}

VARIABLES
    output_handler_,           \* DOH.output_handler_
    previous_output_handler_,  \* DOH.previous_output_handler_
    logLevel_,                 \* DOH.logLevel_
    showLineNumbers_,          \* DOH.showLineNumbers_
    lock_,                     \* DOH.lock_: TRUE when the mutex is locked
    constructed,               \* getDOH()'s static guard: DOH counts as constructed
    nConstructed,              \* ghost: runs of DefaultOutputHandler's constructor
    pc,                        \* per thread: position in the operation it runs
    level,                     \* per thread: log()'s `level` argument
    oh,                        \* per thread: useOutputHandler()'s `oh` argument
    tmp,                       \* per thread: std::swap's temporary
    text,                      \* per thread: parts written to log()'s stringstream
    calls,                     \* per thread: sink calls made by the running log()
    gate,                      \* ghost, per thread: router fields at log()'s gate
    ret,                       \* per thread: value a getter loaded
    trail,                     \* ghost: the last handler-changing operations
    ncalls,                    \* ghost, per thread: router calls started
    caller,                    \* per thread: the router call the thread is in or
                               \* stands before and who made it, none between calls
    site,                      \* per thread: log()'s `file` and `line` arguments and
                               \* the characters `m` and its arguments format to
    ss,                        \* per thread: the characters in log()'s stringstream
    fh,                        \* the OutputHandlerFile object: its lifetime and the
                               \* position of the call made on it
    file_,                     \* OutputHandlerFile::file_
    fbuf,                      \* characters in file_'s buffer, not yet in the file
    disk,                      \* the content of the log file
    cerr,                      \* what has been written to std::cerr
    fghost                     \* ghost: the file when it was opened, the sink calls
                               \* made on the object, the fclose calls made

vars == <<output_handler_, previous_output_handler_, logLevel_, showLineNumbers_,
          lock_, constructed, nConstructed, pc, level, oh, tmp, text, calls,
          gate, ret, trail, ncalls, caller, site, ss,
          fh, file_, fbuf, disk, cerr, fghost>>

routerVars == <<output_handler_, previous_output_handler_, logLevel_,
                showLineNumbers_>>
localVars == <<level, oh, tmp, text, calls, gate, ret>>
initVars == <<constructed, nConstructed>>
fmtVars == <<site, ss>>
fileVars == <<fh, file_, fbuf, disk, cerr, fghost>>
sideVars == <<caller, fmtVars, fileVars>>
ghostVars == <<trail, ncalls, sideVars>>

\* The four configuration fields of DOH as one value.
Config == [cur  |-> output_handler_,
           prev |-> previous_output_handler_,
           lvl  |-> logLevel_,
           show |-> showLineNumbers_]

(***************************************************************************)
(* DefaultOutputHandler::DefaultOutputHandler                              *)
(***************************************************************************)
DOHConstructed ==
    /\ output_handler_ = "std"
    /\ previous_output_handler_ = "std"
    /\ logLevel_ = DEBUG
    /\ showLineNumbers_ = FALSE
    /\ lock_ = FALSE

LocalsInit ==
    /\ pc = [t \in Threads |-> "idle"]
    /\ level = [t \in Threads |-> DEBUG]
    /\ oh = [t \in Threads |-> NULL]
    /\ tmp = [t \in Threads |-> NULL]
    /\ text = [t \in Threads |-> <<>>]
    /\ calls = [t \in Threads |-> <<>>]
    /\ gate = [t \in Threads |-> <<>>]
    /\ ret = [t \in Threads |-> <<>>]
    /\ trail = <<>>
    /\ ncalls = [t \in Threads |-> 0]
    /\ caller = [t \in Threads |-> [by |-> "none", op |-> "none"]]
    /\ site = [t \in Threads |-> <<>>]
    /\ ss = [t \in Threads |-> <<>>]
    /\ fh = "unborn"
    /\ file_ = NULL
    /\ fbuf = <<>>
    /\ cerr = <<>>
    /\ fghost = [disk0 |-> <<>>, calls |-> <<>>, closes |-> 0]

\* The state once the first call of getDOH() has constructed DOH.
Init ==
    /\ DOHConstructed
    /\ constructed = TRUE
    /\ nConstructed = 1
    /\ LocalsInit
    /\ disk = <<>>

\* USE_DOH with a lock that never makes a caller wait.
CanLockAlways == constructed

(***************************************************************************)
(* USE_DOH: getDOH() returns the constructed DOH and scoped_lock waits     *)
(* until the mutex is free.                                                *)
(***************************************************************************)
CanLock == constructed /\ ~lock_

\* A thread that is not inside a router call and can start one.
Idle(t) == pc[t] = "idle"


\* Writing the fields of DOH.
Store(c) ==
    /\ output_handler_' = c.cur
    /\ previous_output_handler_' = c.prev
    /\ logLevel_' = c.lvl
    /\ showLineNumbers_' = c.show

\* Leaving a router call: the locals of the call go out of scope.
Leave(t) ==
    /\ pc' = [pc EXCEPT ![t] = "idle"]
    /\ level' = [level EXCEPT ![t] = DEBUG]
    /\ oh' = [oh EXCEPT ![t] = NULL]
    /\ tmp' = [tmp EXCEPT ![t] = NULL]
    /\ text' = [text EXCEPT ![t] = <<>>]
    /\ calls' = [calls EXCEPT ![t] = <<>>]
    /\ gate' = [gate EXCEPT ![t] = <<>>]
    /\ ret' = [ret EXCEPT ![t] = <<>>]

(***************************************************************************)
(* ompl::msg::noOutputHandler                                              *)
(***************************************************************************)
\* noOutputHandler without its first statement.
noOutputHandlerSaveSkipped(c) == c

\* doh->previous_output_handler_ = doh->output_handler_;
noOutputHandlerSaveStmt(c) == [c EXCEPT !.prev = c.cur]

\* doh->output_handler_ = NULL;
noOutputHandlerClearStmt(c) == [c EXCEPT !.cur = NULL]

\* The function body, start to end.
noOutputHandlerBody(c) == noOutputHandlerClearStmt(noOutputHandlerSaveStmt(c))

\* noOutputHandler without USE_DOH's lock.
noOutputHandlerSaveUnlocked(t) ==
    /\ Idle(t)
    /\ constructed
    /\ Store(noOutputHandlerSaveStmt(Config))
    /\ pc' = [pc EXCEPT ![t] = "no_clear"]
    /\ gate' = [gate EXCEPT ![t] = <<Config>>]
    /\ UNCHANGED <<lock_, initVars, level, oh, tmp, text, calls, ret>>

\* USE_DOH; and the first statement.
noOutputHandlerSave(t) ==
    /\ Idle(t)
    /\ CanLock
    /\ lock_' = TRUE
    /\ Store(noOutputHandlerSaveStmt(Config))
    /\ pc' = [pc EXCEPT ![t] = "no_clear"]
    /\ gate' = [gate EXCEPT ![t] = <<Config>>]
    /\ UNCHANGED <<initVars, level, oh, tmp, text, calls, ret>>

\* The second statement; and the scoped_lock is released.
noOutputHandlerClear(t) ==
    /\ pc[t] = "no_clear"
    /\ Store(noOutputHandlerClearStmt(Config))
    /\ lock_' = FALSE
    /\ Leave(t)
    /\ UNCHANGED initVars

(***************************************************************************)
(* ompl::msg::restorePreviousOutputHandler: std::swap(previous, current)   *)
(***************************************************************************)
\* A restore that only copies the previous handler into the current one.
swapMoveSkipped(c) == c

\* std::swap's second and third assignments: a = b; b = tmp; with a the
\* previous and b the current handler.
swapMoveStmt(c) == [c EXCEPT !.prev = c.cur]

swapStoreStmt(c, saved) == [c EXCEPT !.cur = saved]

\* The function body, start to end.
restorePreviousOutputHandlerBody(c) == swapStoreStmt(swapMoveStmt(c), c.prev)

\* USE_DOH; and std::swap's first assignment, tmp = previous_output_handler_;
restorePreviousOutputHandlerLoad(t) ==
    /\ Idle(t)
    /\ CanLock
    /\ lock_' = TRUE
    /\ tmp' = [tmp EXCEPT ![t] = previous_output_handler_]
    /\ pc' = [pc EXCEPT ![t] = "swap_move"]
    /\ gate' = [gate EXCEPT ![t] = <<Config>>]
    /\ UNCHANGED <<routerVars, initVars, level, oh, text, calls, ret>>

\* previous_output_handler_ = output_handler_;
restorePreviousOutputHandlerMove(t) ==
    /\ pc[t] = "swap_move"
    /\ Store(swapMoveStmt(Config))
    /\ pc' = [pc EXCEPT ![t] = "swap_store"]
    /\ UNCHANGED <<lock_, initVars, localVars>>

\* output_handler_ = tmp; and the scoped_lock is released.
restorePreviousOutputHandlerStore(t) ==
    /\ pc[t] = "swap_store"
    /\ Store(swapStoreStmt(Config, tmp[t]))
    /\ lock_' = FALSE
    /\ Leave(t)
    /\ UNCHANGED initVars

(***************************************************************************)
(* ompl::msg::useOutputHandler                                             *)
(***************************************************************************)
\* useOutputHandler without its first statement.
useOutputHandlerSaveSkipped(c) == c

\* useOutputHandler installing only non-null handlers.
useOutputHandlerInstallNonNull(c, h) ==
    IF h = NULL THEN c ELSE [c EXCEPT !.cur = h]

\* doh->previous_output_handler_ = doh->output_handler_;
useOutputHandlerSaveStmt(c) == [c EXCEPT !.prev = c.cur]

\* doh->output_handler_ = oh;
useOutputHandlerInstallStmt(c, h) == [c EXCEPT !.cur = h]

\* The function body, start to end.
useOutputHandlerBody(c, h) ==
    useOutputHandlerInstallStmt(useOutputHandlerSaveStmt(c), h)

\* USE_DOH; and the first statement.
useOutputHandlerSave(t, h) ==
    /\ Idle(t)
    /\ CanLock
    /\ lock_' = TRUE
    /\ oh' = [oh EXCEPT ![t] = h]
    /\ Store(useOutputHandlerSaveStmt(Config))
    /\ pc' = [pc EXCEPT ![t] = "use_install"]
    /\ gate' = [gate EXCEPT ![t] = <<Config>>]
    /\ UNCHANGED <<initVars, level, tmp, text, calls, ret>>

\* The second statement; and the scoped_lock is released.
useOutputHandlerInstall(t) ==
    /\ pc[t] = "use_install"
    /\ Store(useOutputHandlerInstallStmt(Config, oh[t]))
    /\ lock_' = FALSE
    /\ Leave(t)
    /\ UNCHANGED initVars

\* getOutputHandler returning the remembered handler instead.
getOutputHandlerPrevious(t) ==
    /\ Idle(t)
    /\ constructed
    /\ pc' = [pc EXCEPT ![t] = "ret_handler"]
    /\ ret' = [ret EXCEPT ![t] = <<previous_output_handler_>>]
    /\ UNCHANGED <<routerVars, lock_, initVars, level, oh, tmp, text, calls, gate>>

(***************************************************************************)
(* ompl::msg::getOutputHandler: return getDOH()->output_handler_;          *)
(* a single load of the pointer, with no lock taken.                       *)
(***************************************************************************)
getOutputHandler(t) ==
    /\ Idle(t)
    /\ constructed
    /\ pc' = [pc EXCEPT ![t] = "ret_handler"]
    /\ ret' = [ret EXCEPT ![t] = <<output_handler_>>]
    /\ UNCHANGED <<routerVars, lock_, initVars, level, oh, tmp, text, calls, gate>>

(***************************************************************************)
(* ompl::msg::setLogLevel, getLogLevel, showLineNumbers: one statement     *)
(* each between taking and releasing the scoped_lock.                      *)
(***************************************************************************)
\* setLogLevel switching the line numbers off as well.
setLogLevelResetsShow(t, l) ==
    /\ Idle(t)
    /\ CanLock
    /\ logLevel_' = l
    /\ showLineNumbers_' = FALSE
    /\ UNCHANGED <<output_handler_, previous_output_handler_,
                   lock_, initVars, pc, localVars>>

setLogLevel(t, l) ==
    /\ Idle(t)
    /\ CanLock
    /\ logLevel_' = l
    /\ UNCHANGED <<output_handler_, previous_output_handler_, showLineNumbers_,
                   lock_, initVars, pc, localVars>>

getLogLevel(t) ==
    /\ Idle(t)
    /\ CanLock
    /\ pc' = [pc EXCEPT ![t] = "ret_level"]
    /\ ret' = [ret EXCEPT ![t] = <<logLevel_>>]
    /\ UNCHANGED <<routerVars, lock_, initVars, level, oh, tmp, text, calls, gate>>

showLineNumbers(t, show) ==
    /\ Idle(t)
    /\ CanLock
    /\ showLineNumbers_' = show
    /\ UNCHANGED <<output_handler_, previous_output_handler_, logLevel_,
                   lock_, initVars, pc, localVars>>

\* getOutputHandler or getLogLevel hands its value to the caller.
returnValue(t) ==
    /\ pc[t] \in {"ret_handler", "ret_level"}
    /\ Leave(t)
    /\ UNCHANGED <<routerVars, lock_, initVars>>

(***************************************************************************)
(* ompl::msg::log                                                          *)
(***************************************************************************)
\* The gate without its test of the handler pointer.
PassesGateLevelOnly(h, l, min) == l >= min

\* if (doh->output_handler_ && level >= doh->logLevel_)
PassesGate(h, l, min) == h # NULL /\ l >= min

\* The switch with the bodies of two of its cases exchanged.
SinkOfInfoAsDebug(l) ==
    CASE l = ERROR -> "error"
      [] l = WARN  -> "warn"
      [] l = INFO  -> "debug"
      [] l = DEBUG -> "inform"
      [] OTHER     -> "error"

\* The switch with its default label sent to debug().
SinkOfDefaultAsDebug(l) ==
    CASE l = ERROR -> "error"
      [] l = WARN  -> "warn"
      [] l = INFO  -> "inform"
      [] l = DEBUG -> "debug"
      [] l = NONE  -> "error"
      [] OTHER     -> "debug"

\* switch (level): the OutputHandler method the call goes to.
SinkOf(l) ==
    CASE l = ERROR -> "error"
      [] l = WARN  -> "warn"
      [] l = INFO  -> "inform"
      [] l = DEBUG -> "debug"
      [] OTHER     -> "error"

\* USE_DOH; and the test of the if statement.
logGate(t, l) ==
    /\ Idle(t)
    /\ CanLock
    /\ lock_' = TRUE
    /\ level' = [level EXCEPT ![t] = l]
    /\ gate' = [gate EXCEPT ![t] = <<Config>>]
    /\ pc' = [pc EXCEPT ![t] =
                 IF PassesGate(output_handler_, l, logLevel_)
                 THEN "log_format" ELSE "log_end"]
    /\ UNCHANGED <<routerVars, initVars, oh, tmp, text, calls, ret>>

\* vsnprintf into buf; then the stringstream: the line prefix when
\* showLineNumbers_ is set, then buf.
logFormat(t) ==
    /\ pc[t] = "log_format"
    /\ text' = [text EXCEPT ![t] =
                   IF showLineNumbers_ THEN <<"line", "buf">> ELSE <<"buf">>]
    /\ pc' = [pc EXCEPT ![t] = "log_switch"]
    /\ UNCHANGED <<routerVars, lock_, initVars, level, oh, tmp, calls, gate, ret>>

\* The switch calling the remembered handler.
logSwitchToPrevious(t) ==
    /\ pc[t] = "log_switch"
    /\ calls' = [calls EXCEPT ![t] =
                    Append(@, [h |-> previous_output_handler_,
                               m |-> SinkOf(level[t]),
                               text |-> text[t]])]
    /\ pc' = [pc EXCEPT ![t] = "in_sink"]
    /\ UNCHANGED <<routerVars, lock_, initVars, level, oh, tmp, text, gate, ret>>

\* The switch: doh->output_handler_-><sink>(ss.str()); the thread is inside
\* the sink method until it returns.
logSwitch(t) ==
    /\ pc[t] = "log_switch"
    /\ calls' = [calls EXCEPT ![t] =
                    Append(@, [h |-> output_handler_,
                               m |-> SinkOf(level[t]),
                               text |-> text[t]])]
    /\ pc' = [pc EXCEPT ![t] = "in_sink"]
    /\ UNCHANGED <<routerVars, lock_, initVars, level, oh, tmp, text, gate, ret>>

\* The sink method returns to log().
sinkReturn(t) ==
    /\ pc[t] = "in_sink"
    /\ pc' = [pc EXCEPT ![t] = "log_end"]
    /\ UNCHANGED <<routerVars, lock_, initVars, localVars>>

\* log() returning with the mutex still locked.
logReturnKeepsLock(t) ==
    /\ pc[t] = "log_end"
    /\ lock_' = lock_
    /\ Leave(t)
    /\ UNCHANGED <<routerVars, initVars>>

\* log() returns: the scoped_lock is released.
logReturn(t) ==
    /\ pc[t] = "log_end"
    /\ lock_' = FALSE
    /\ Leave(t)
    /\ UNCHANGED <<routerVars, initVars>>

(***************************************************************************)
(* getDOH() before DOH exists: `static DefaultOutputHandler DOH;` with no  *)
(* synchronisation of its guard ("the first run of this function is not    *)
(* thread safe").  A thread tests the guard, and one that found it unset   *)
(* runs the constructor.  The guard is set after the constructor has run   *)
(* or before it, as the compiler chose; both are kept.                     *)
(***************************************************************************)
getDOHTest(t) ==
    /\ Idle(t)
    /\ ~constructed
    /\ pc' = [pc EXCEPT ![t] = "doh_ctor"]
    /\ UNCHANGED <<routerVars, lock_, initVars, localVars>>

\* The guard is set as soon as it was found unset: until the constructor has
\* run, the other threads work on DOH's zero-initialised storage.
getDOHTestAndSet(t) ==
    /\ Idle(t)
    /\ ~constructed
    /\ constructed' = TRUE
    /\ pc' = [pc EXCEPT ![t] = "doh_ctor"]
    /\ UNCHANGED <<routerVars, lock_, nConstructed, localVars>>

\* DefaultOutputHandler::DefaultOutputHandler, and the guard is set.
getDOHConstruct(t) ==
    /\ pc[t] = "doh_ctor"
    /\ output_handler_' = "std"
    /\ previous_output_handler_' = "std"
    /\ logLevel_' = DEBUG
    /\ showLineNumbers_' = FALSE
    /\ lock_' = FALSE
    /\ constructed' = TRUE
    /\ nConstructed' = nConstructed + 1
    /\ pc' = [pc EXCEPT ![t] = "idle"]
    /\ UNCHANGED localVars

(***************************************************************************)
(* The ghost trail: the handler-changing operations in the order they      *)
(* completed, each with its argument and the router fields it found.       *)
(***************************************************************************)
Keep(s) == IF Len(s) <= TrailLen THEN s ELSE SubSeq(s, Len(s) - TrailLen + 1, Len(s))

Record(t, name) ==
    /\ UNCHANGED <<ncalls, sideVars>>
    /\ trail' = Keep(Append(trail, [op |-> name, oh |-> oh[t],
                                    cur |-> gate[t][1].cur,
                                    prev |-> gate[t][1].prev]))

\* The ghost count of the calls a thread has started.
Begin(t) ==
    /\ ncalls[t] < MaxFirstCalls
    /\ ncalls' = [ncalls EXCEPT ![t] = @ + 1]
    /\ UNCHANGED <<trail, sideVars>>


(***************************************************************************)
(* The program: any thread calls any operation with any argument.          *)
(***************************************************************************)
Next ==
    \E t \in Threads :
        \/ noOutputHandlerSave(t) /\ UNCHANGED ghostVars
        \/ noOutputHandlerClear(t) /\ UNCHANGED ghostVars
        \/ restorePreviousOutputHandlerLoad(t) /\ UNCHANGED ghostVars
        \/ restorePreviousOutputHandlerMove(t) /\ UNCHANGED ghostVars
        \/ restorePreviousOutputHandlerStore(t) /\ UNCHANGED ghostVars
        \/ \E h \in HandlerPtrs : useOutputHandlerSave(t, h) /\ UNCHANGED ghostVars
        \/ useOutputHandlerInstall(t) /\ UNCHANGED ghostVars
        \/ getOutputHandler(t) /\ UNCHANGED ghostVars
        \/ \E l \in LogLevels : setLogLevel(t, l) /\ UNCHANGED ghostVars
        \/ getLogLevel(t) /\ UNCHANGED ghostVars
        \/ \E b \in BOOLEAN : showLineNumbers(t, b) /\ UNCHANGED ghostVars
        \/ returnValue(t) /\ UNCHANGED ghostVars
        \/ \E l \in LevelArgs : logGate(t, l) /\ UNCHANGED ghostVars
        \/ logFormat(t) /\ UNCHANGED ghostVars
        \/ logSwitch(t) /\ UNCHANGED ghostVars
        \/ sinkReturn(t) /\ UNCHANGED ghostVars
        \/ logReturn(t) /\ UNCHANGED ghostVars

Spec == Init /\ [][Next]_vars

(***************************************************************************)
(* The thread that configures the router, with the trail kept: the         *)
(* handler operations and the setters are those of Next, and the step that *)
(* completes a handler-changing operation also records it.                 *)
(***************************************************************************)
Caller == CHOOSE t \in Threads : \A u \in Threads : t <= u

NextTrail ==
    \E t \in {Caller} :
        \/ noOutputHandlerSave(t) /\ UNCHANGED ghostVars
        \/ noOutputHandlerClear(t) /\ Record(t, "noOutputHandler")
        \/ restorePreviousOutputHandlerLoad(t) /\ UNCHANGED ghostVars
        \/ restorePreviousOutputHandlerMove(t) /\ UNCHANGED ghostVars
        \/ restorePreviousOutputHandlerStore(t)
              /\ Record(t, "restorePreviousOutputHandler")
        \/ \E h \in HandlerPtrs : useOutputHandlerSave(t, h) /\ UNCHANGED ghostVars
        \/ useOutputHandlerInstall(t) /\ Record(t, "useOutputHandler")
        \/ getOutputHandler(t) /\ UNCHANGED ghostVars
        \/ \E l \in LogLevels : setLogLevel(t, l) /\ UNCHANGED ghostVars
        \/ \E b \in BOOLEAN : showLineNumbers(t, b) /\ UNCHANGED ghostVars
        \/ returnValue(t) /\ UNCHANGED ghostVars

SpecTrail == Init /\ [][NextTrail]_vars

(***************************************************************************)
(* The program from process start: DOH's storage is zero-initialised, the  *)
(* first calls of getDOH() construct it, and each thread then makes its    *)
(* first router calls.                                                     *)
(***************************************************************************)
InitFirstAccess ==
    /\ output_handler_ = NULL
    /\ previous_output_handler_ = NULL
    /\ logLevel_ = DEBUG
    /\ showLineNumbers_ = FALSE
    /\ lock_ = FALSE
    /\ constructed = FALSE
    /\ nConstructed = 0
    /\ LocalsInit
    /\ disk = <<>>

NextFirstAccess ==
    \E t \in Threads :
        \/ getDOHTest(t) /\ UNCHANGED ghostVars
        \/ getDOHTestAndSet(t) /\ UNCHANGED ghostVars
        \/ getDOHConstruct(t) /\ UNCHANGED ghostVars
        \/ noOutputHandlerSave(t) /\ Begin(t)
        \/ noOutputHandlerClear(t) /\ UNCHANGED ghostVars
        \/ restorePreviousOutputHandlerLoad(t) /\ Begin(t)
        \/ restorePreviousOutputHandlerMove(t) /\ UNCHANGED ghostVars
        \/ restorePreviousOutputHandlerStore(t) /\ UNCHANGED ghostVars
        \/ \E h \in HandlerPtrs : useOutputHandlerSave(t, h) /\ Begin(t)
        \/ useOutputHandlerInstall(t) /\ UNCHANGED ghostVars
        \/ getOutputHandler(t) /\ Begin(t)
        \/ \E l \in LogLevels : setLogLevel(t, l) /\ Begin(t)
        \/ getLogLevel(t) /\ Begin(t)
        \/ \E b \in BOOLEAN : showLineNumbers(t, b) /\ Begin(t)
        \/ returnValue(t) /\ UNCHANGED ghostVars
        \/ \E l \in LevelArgs : logGate(t, l) /\ Begin(t)
        \/ logFormat(t) /\ UNCHANGED ghostVars
        \/ logSwitch(t) /\ UNCHANGED ghostVars
        \/ sinkReturn(t) /\ UNCHANGED ghostVars
        \/ logReturn(t) /\ UNCHANGED ghostVars

SpecFirstAccess == InitFirstAccess /\ [][NextFirstAccess]_vars

(***************************************************************************)
(* The text log() builds.  A string is the sequence of its characters.     *)
(***************************************************************************)
MAX_BUFFER_SIZE == 1024

Min(a, b) == IF a <= b THEN a ELSE b

DigitChars == <<"0", "1", "2", "3", "4", "5", "6", "7", "8", "9">>

\* operator<<(int): the decimal digits of n, after a minus sign when n < 0.
RECURSIVE Digits(_)
Digits(n) == IF n < 10 THEN <<DigitChars[n + 1]>>
             ELSE Digits(n \div 10) \o <<DigitChars[(n % 10) + 1]>>

Decimal(n) == IF n < 0 THEN <<"-">> \o Digits(-n) ELSE Digits(n)

\* filename() handing back the path it was given.
FileNameWholePath(p) == p

\* boost::filesystem::path(file).filename(): the characters after the last
\* separator of a path that does not end in one.
RECURSIVE FileName(_)
FileName(p) ==
    IF p = <<>> THEN <<>>
    ELSE IF p[Len(p)] = "/" THEN <<>>
    ELSE FileName(SubSeq(p, 1, Len(p) - 1)) \o <<p[Len(p)]>>

\* vsnprintf with nothing cut off.
VsnprintfUncut(f) == f

\* vsnprintf(buf, sizeof(buf), m, __ap); buf[MAX_BUFFER_SIZE - 1] = '\0':
\* of the characters f that m and its arguments format to, buf holds the
\* first MAX_BUFFER_SIZE - 1 at most, and then the terminator.
Vsnprintf(f) == SubSeq(f, 1, Min(Len(f), MAX_BUFFER_SIZE - 1))

\* ss << "line " << line << " in " << ...filename().string() << ": "
LinePrefix(a) ==
    <<"l", "i", "n", "e", " ">> \o Decimal(a.line) \o <<" ", "i", "n", " ">>
        \o FileName(a.file) \o <<":", " ">>

\* What each part written to the stringstream is, for the call made at a.
Part(name, a) == IF name = "line" THEN LinePrefix(a) ELSE Vsnprintf(a.msg)

RECURSIVE Stream(_, _)
Stream(parts, a) ==
    IF parts = <<>> THEN <<>>
    ELSE Part(Head(parts), a) \o Stream(Tail(parts), a)

\* The formatted messages of the calls: n characters, with n around the size
\* of buf.
Formatted(n) == [i \in 1..n |-> DigitChars[(i % 10) + 1]]

MessageLengths == {0, 1, MAX_BUFFER_SIZE - 2, MAX_BUFFER_SIZE - 1,
                   MAX_BUFFER_SIZE, MAX_BUFFER_SIZE + 1}

Files == { <<"a", ".", "c">>,
           <<"s", "/", "a", ".", "c">>,
           <<"/", "o", "/", "s", "/", "b">> }

Lines == {0, 7, 120}

Sites == [file : Files, line : Lines, msg : {Formatted(n) : n \in MessageLengths}]

\* log() is entered with the arguments a.
logArguments(t, a) ==
    /\ site' = [site EXCEPT ![t] = <<a>>]
    /\ UNCHANGED <<ss, caller, ncalls, fileVars>>

\* The stringstream once log() has written its parts.
logStream(t) ==
    /\ ss' = [ss EXCEPT ![t] = Stream(text'[t], site[t][1])]
    /\ UNCHANGED <<site, caller, trail, ncalls, fileVars>>

\* log() returns: its arguments and its stringstream are gone.
logLeave(t) ==
    /\ site' = [site EXCEPT ![t] = <<>>]
    /\ ss' = [ss EXCEPT ![t] = <<>>]
    /\ UNCHANGED <<caller, trail, ncalls, fileVars>>

\* The last showLineNumbers() call, kept in the trail.
RecordShow(show) ==
    /\ trail' = <<[op |-> "showLineNumbers", show |-> show]>>
    /\ UNCHANGED <<ncalls, sideVars>>

NextFormat ==
    \E t \in {Caller} :
        \/ \E b \in BOOLEAN : showLineNumbers(t, b) /\ RecordShow(b)
        \/ \E l \in LevelArgs, a \in Sites :
              logGate(t, l) /\ logArguments(t, a) /\ UNCHANGED trail
        \/ logFormat(t) /\ logStream(t)
        \/ logSwitch(t) /\ UNCHANGED ghostVars
        \/ sinkReturn(t) /\ UNCHANGED ghostVars
        \/ logReturn(t) /\ logLeave(t)

SpecFormat == Init /\ [][NextFormat]_vars

(***************************************************************************)
(* The program with the callers' waiting made visible.  A thread first     *)
(* makes its call, and then stands at USE_DOH until the mutex is free;     *)
(* getOutputHandler() has no USE_DOH to stand at.  The mutex gives no      *)
(* order among the threads waiting for it: the scheduling is fair when a   *)
(* thread that finds the mutex free again and again gets it in the end.    *)
(***************************************************************************)
Operations == {"noOutputHandler", "restorePreviousOutputHandler",
               "useOutputHandler", "getOutputHandler", "setLogLevel",
               "getLogLevel", "showLineNumbers", "log"}

NoCall == [by |-> "none", op |-> "none"]

InCall(t) == caller[t] # NoCall

\* The arguments the calls are made with where only their returning is
\* looked at: a handler and the null pointer, a level that lets every
\* message through and one that stops them all.
LiveHandlerPtrs == {"h1", NULL}
LiveLevels == {DEBUG, NONE}

\* The application calls router operation op on thread t.
call(t, op) ==
    /\ Idle(t)
    /\ constructed
    /\ ~InCall(t)
    /\ caller' = [caller EXCEPT ![t] = [by |-> "app", op |-> op]]
    /\ UNCHANGED <<routerVars, lock_, initVars, pc, localVars, trail, ncalls,
                   fmtVars, fileVars>>

\* The call of thread t returns to whoever made it.
Return(t) ==
    /\ caller' = [caller EXCEPT ![t] = NoCall]
    /\ UNCHANGED <<trail, ncalls, fmtVars, fileVars>>

\* setLogLevel(l) returns, and the trail keeps it as the last one.
ReturnLevelSet(t, l) ==
    /\ caller' = [caller EXCEPT ![t] = NoCall]
    /\ trail' = <<[op |-> "setLogLevel", level |-> l]>>
    /\ UNCHANGED <<ncalls, fmtVars, fileVars>>

\* USE_DOH of the operation called lets thread t through.
LockedCall(t) ==
    \/ /\ caller[t].op = "noOutputHandler"
       /\ noOutputHandlerSave(t) /\ UNCHANGED ghostVars
    \/ /\ caller[t].op = "restorePreviousOutputHandler"
       /\ restorePreviousOutputHandlerLoad(t) /\ UNCHANGED ghostVars
    \/ /\ caller[t].op = "useOutputHandler"
       /\ \E h \in LiveHandlerPtrs : useOutputHandlerSave(t, h) /\ UNCHANGED ghostVars
    \/ /\ caller[t].op = "setLogLevel"
       /\ \E l \in LiveLevels : setLogLevel(t, l) /\ ReturnLevelSet(t, l)
    \/ /\ caller[t].op = "getLogLevel"
       /\ getLogLevel(t) /\ UNCHANGED ghostVars
    \/ /\ caller[t].op = "showLineNumbers"
       /\ \E b \in BOOLEAN : showLineNumbers(t, b) /\ Return(t)
    \/ /\ caller[t].op = "log"
       /\ \E l \in LiveLevels : logGate(t, l) /\ UNCHANGED ghostVars

\* getOutputHandler() has no USE_DOH.
UnlockedCall(t) ==
    /\ caller[t].op = "getOutputHandler"
    /\ getOutputHandler(t) /\ UNCHANGED ghostVars

\* Thread t goes on with the operation it is in.
Proceed(t) ==
    \/ noOutputHandlerClear(t) /\ Return(t)
    \/ restorePreviousOutputHandlerMove(t) /\ UNCHANGED ghostVars
    \/ restorePreviousOutputHandlerStore(t) /\ Return(t)
    \/ useOutputHandlerInstall(t) /\ Return(t)
    \/ returnValue(t) /\ Return(t)
    \/ logFormat(t) /\ UNCHANGED ghostVars
    \/ logSwitch(t) /\ UNCHANGED ghostVars
    \/ sinkReturn(t) /\ UNCHANGED ghostVars
    \/ logReturn(t) /\ Return(t)

NextLive ==
    \E t \in Threads :
        \/ \E op \in Operations : call(t, op)
        \/ LockedCall(t)
        \/ UnlockedCall(t)
        \/ Proceed(t)

\* Every thread is scheduled, every sink method returns, and a waiting
\* thread is not passed over for ever.
FairScheduling ==
    \A t \in Threads :
        /\ WF_vars(Proceed(t))
        /\ WF_vars(UnlockedCall(t))
        /\ SF_vars(LockedCall(t))

SpecLive == Init /\ [][NextLive]_vars /\ FairScheduling

(***************************************************************************)
(* Properties of log().                                                    *)
(***************************************************************************)
\* The positions of a thread inside log(), and those at which its switch
\* statement has been executed or skipped.
LogPcs == {"log_format", "log_switch", "in_sink", "log_end"}

\* The router fields a running log() found when it took the lock.
AtGate(t) == gate[t][1]

\* The sink method documented for each dispatchable level.
MatchingSink(l) ==
    IF l = DEBUG THEN "debug"
    ELSE IF l = INFO THEN "inform"
    ELSE IF l = WARN THEN "warn"
    ELSE "error"

\* C1: a log call at a level L among DEBUG, INFO, WARN, ERROR, made while a
\* non-null handler is current and L is at least the minimum level, invokes
\* one sink method, once: the method matching L, on the current handler.  No
\* call is made before the switch, and after it the calls of this log() are
\* that one call and nothing else.
C1_DispatchMatchesLevel ==
    \A t \in Threads :
        (/\ pc[t] \in LogPcs
         /\ level[t] \in DEBUG..ERROR
         /\ AtGate(t).cur # NULL
         /\ level[t] >= AtGate(t).lvl)
        => /\ pc[t] \in {"log_format", "log_switch"} => calls[t] = <<>>
           /\ pc[t] \in {"in_sink", "log_end"} =>
                 /\ Len(calls[t]) = 1
                 /\ calls[t][1].h = AtGate(t).cur
                 /\ calls[t][1].h = output_handler_
                 /\ calls[t][1].m = MatchingSink(level[t])

\* A log call at WARN with minimum INFO has returned from h1's warn method.
C1_Witness ==
    \E t \in Threads :
        /\ pc[t] = "log_end"
        /\ level[t] = WARN
        /\ AtGate(t).lvl = INFO
        /\ calls[t] = <<[h |-> "h1", m |-> "warn", text |-> <<"buf">>]>>

\* C2: a log call made while the current handler is null, or at a level
\* below the minimum, formats nothing and invokes no sink method: it goes
\* from the gate straight to its end.  With minimum NONE this covers every
\* call at DEBUG, INFO, WARN and ERROR.
C2_NoDispatchWhenGated ==
    \A t \in Threads :
        (/\ pc[t] \in LogPcs
         /\ \/ AtGate(t).cur = NULL
            \/ level[t] < AtGate(t).lvl
            \/ (AtGate(t).lvl = NONE /\ level[t] \in DEBUG..ERROR))
        => /\ pc[t] = "log_end"
           /\ text[t] = <<>>
           /\ calls[t] = <<>>

\* After noOutputHandler() or useOutputHandler(NULL), with h1 remembered as
\* the previous handler, a log call at ERROR with minimum DEBUG has reached
\* its end.
C2_Witness ==
    \E t \in Threads :
        /\ pc[t] = "log_end"
        /\ level[t] = ERROR
        /\ logLevel_ = DEBUG
        /\ output_handler_ = NULL
        /\ previous_output_handler_ = "h1"
        /\ calls[t] = <<>>

(***************************************************************************)
(* Properties of the handler operations, read off the trail: trail[n] is   *)
(* the operation that completed last, trail[n-1] the one before it, and    *)
(* each entry holds the handlers its operation found.                      *)
(***************************************************************************)
\* The operations, oldest first, that completed last.
Recent(k) == SubSeq(trail, Len(trail) - k + 1, Len(trail))

Ops(k) == [i \in 1..k |-> Recent(k)[i].op]

\* No handler operation is between its statements.
Settled == \A t \in Threads : pc[t] \notin {"no_clear", "swap_move", "swap_store",
                                           "use_install"}

\* C3: noOutputHandler() followed immediately by restorePreviousOutputHandler()
\* leaves as current handler the one, null or not, that was current before
\* the noOutputHandler().
C3_DisableThenRestore ==
    (/\ Len(trail) >= 2
     /\ Ops(2) = <<"noOutputHandler", "restorePreviousOutputHandler">>)
    => output_handler_ = Recent(2)[1].cur

\* h1 was current, noOutputHandler() and restorePreviousOutputHandler() ran,
\* and h1 is current again.
C3_Witness ==
    /\ Len(trail) >= 2
    /\ Ops(2) = <<"noOutputHandler", "restorePreviousOutputHandler">>
    /\ Recent(2)[1].cur = "h1"
    /\ output_handler_ = "h1"

\* C4: restorePreviousOutputHandler() exchanges the current and the previous
\* handler, and two of them in a row bring both back to what they were
\* before the first.
C4_RestoreTwice ==
    /\ (/\ Len(trail) >= 1
        /\ Ops(1) = <<"restorePreviousOutputHandler">>)
       => /\ output_handler_ = Recent(1)[1].prev
          /\ Settled => previous_output_handler_ = Recent(1)[1].cur
    /\ (/\ Len(trail) >= 2
        /\ Ops(2) = <<"restorePreviousOutputHandler", "restorePreviousOutputHandler">>)
       => /\ output_handler_ = Recent(2)[1].cur
          /\ Settled => previous_output_handler_ = Recent(2)[1].prev

\* With h1 current and h2 previous, two restorePreviousOutputHandler() calls
\* ran and h1 is current and h2 previous.
C4_Witness ==
    /\ Len(trail) >= 2
    /\ Ops(2) = <<"restorePreviousOutputHandler", "restorePreviousOutputHandler">>
    /\ Recent(2)[1].cur = "h1"
    /\ Recent(2)[1].prev = "h2"
    /\ Settled
    /\ output_handler_ = "h1"
    /\ previous_output_handler_ = "h2"

\* C5: useOutputHandler(h) makes h current and the handler that was current
\* before it previous.  The history is one slot: after useOutputHandler(a);
\* useOutputHandler(b) the previous handler is a, whatever was current before,
\* and a following restorePreviousOutputHandler() makes a current.
C5_SingleSlotHistory ==
    /\ (/\ Len(trail) >= 1
        /\ Ops(1) = <<"useOutputHandler">>)
       => /\ output_handler_ = Recent(1)[1].oh
          /\ Settled => previous_output_handler_ = Recent(1)[1].cur
    /\ (/\ Len(trail) >= 2
        /\ Ops(2) = <<"useOutputHandler", "useOutputHandler">>)
       => /\ output_handler_ = Recent(2)[2].oh
          /\ Settled => previous_output_handler_ = Recent(2)[1].oh
    /\ (/\ Len(trail) >= 3
        /\ Ops(3) = <<"useOutputHandler", "useOutputHandler",
                      "restorePreviousOutputHandler">>)
       => /\ output_handler_ = Recent(3)[1].oh
          /\ Settled => previous_output_handler_ = Recent(3)[2].oh

\* From current handler std: useOutputHandler(h1); useOutputHandler(h2);
\* restorePreviousOutputHandler(); and h1, not std, is current.
C5_Witness ==
    /\ Len(trail) >= 3
    /\ Ops(3) = <<"useOutputHandler", "useOutputHandler",
                  "restorePreviousOutputHandler">>
    /\ Recent(3)[1].cur = "std"
    /\ Recent(3)[1].oh = "h1"
    /\ Recent(3)[2].oh = "h2"
    /\ output_handler_ = "h1"

\* C6: useOutputHandler(NULL) and noOutputHandler() are the same operation.
\* The step that completes a useOutputHandler(NULL) leaves the four router
\* fields as the body of noOutputHandler() would have left them from the
\* state the call found, and the step that completes a noOutputHandler()
\* leaves them as the body of useOutputHandler(NULL) would have.
C6_UseNullIsDisable ==
    [][\A t \in Threads :
          /\ (pc[t] = "use_install" /\ oh[t] = NULL /\ pc'[t] = "idle")
             => Config' = noOutputHandlerBody(AtGate(t))
          /\ (pc[t] = "no_clear" /\ pc'[t] = "idle")
             => Config' = useOutputHandlerBody(AtGate(t), NULL)]_vars

\* useOutputHandler(NULL) has completed with h1 current, minimum level WARN
\* and line numbers on: the handler is null, h1 is previous, and the level
\* and the flag are as they were.
C6_Witness ==
    /\ Len(trail) >= 1
    /\ Ops(1) = <<"useOutputHandler">>
    /\ Recent(1)[1].oh = NULL
    /\ Recent(1)[1].cur = "h1"
    /\ Settled
    /\ Config = [cur |-> NULL, prev |-> "h1", lvl |-> WARN, show |-> TRUE]

(***************************************************************************)
(* Properties of the lock.                                                 *)
(***************************************************************************)
\* The threads inside log(), and those inside a sink method log() called.
InLog == {t \in Threads : pc[t] \in LogPcs}

InSink == {t \in Threads : pc[t] = "in_sink"}

\* C7: whatever the number of threads calling log(), at most one thread is
\* inside a sink method the router called, and the gate, the formatting and
\* the sink call of one log() are not interleaved with those of another: at
\* most one thread is anywhere inside log(), and it holds the mutex.
C7_OneThreadInSink ==
    /\ Cardinality(InSink) <= 1
    /\ Cardinality(InLog) <= 1
    /\ InLog # {} => lock_

\* A thread is inside h1's sink method while another thread's log() cannot
\* get past USE_DOH.
C7_Witness ==
    \E t, u \in Threads :
        /\ t # u
        /\ pc[t] = "in_sink"
        /\ calls[t][1].h = "h1"
        /\ Idle(u)
        /\ ~ ENABLED logGate(u, ERROR)

\* C8: the mutators are atomic with respect to log() and to each other.
\* All through a log() call the four router fields are those the call found
\* at its gate, so the line-number decision follows the flag of that state
\* and the sink call goes through the handler that was tested, which is not
\* null.  All through a handler operation the fields are what the operation
\* found, changed by its own statements only.
C8_OneConfigurationPerCall ==
    \A t \in Threads :
        /\ pc[t] \in LogPcs =>
              /\ Config = AtGate(t)
              /\ text[t] # <<>> =>
                    (text[t] = <<"line", "buf">>) = AtGate(t).show
              /\ \A i \in 1..Len(calls[t]) :
                    /\ calls[t][i].h # NULL
                    /\ calls[t][i].h = AtGate(t).cur
        /\ pc[t] = "swap_move" => Config = AtGate(t) /\ tmp[t] = AtGate(t).prev
        /\ pc[t] \in {"no_clear", "use_install", "swap_store"} =>
              Config = [AtGate(t) EXCEPT !.prev = AtGate(t).cur]
        /\ pc[t] = "swap_store" => tmp[t] = AtGate(t).prev

\* A log() that tested h1 with line numbers on is at its switch while
\* another thread's noOutputHandler(), setLogLevel() and showLineNumbers()
\* cannot get past USE_DOH.
C8_Witness ==
    \E t, u \in Threads :
        /\ t # u
        /\ pc[t] = "log_switch"
        /\ AtGate(t).cur = "h1"
        /\ text[t] = <<"line", "buf">>
        /\ Idle(u)
        /\ ~ ENABLED noOutputHandlerSave(u)
        /\ ~ ENABLED setLogLevel(u, NONE)
        /\ ~ ENABLED showLineNumbers(u, FALSE)

(***************************************************************************)
(* Properties of getDOH().                                                 *)
(***************************************************************************)
\* C9: the router state is created exactly once, on first access, also when
\* several threads make their first access at the same time: the constructor
\* of DOH never runs a second time, and a thread inside a router operation
\* works on the one state, after its constructor has run.
C9_CreatedOnce ==
    /\ nConstructed <= 1
    /\ \A t \in Threads :
          pc[t] \notin {"idle", "doh_ctor"} => nConstructed = 1

(***************************************************************************)
(* Properties of getOutputHandler().                                       *)
(***************************************************************************)
\* C10: getOutputHandler() returns the current handler without taking the
\* mutex.  A caller can always run it, whoever holds the mutex; its step
\* leaves the mutex as it is; and the value it returns is the handler that
\* is current at the instant of its load.
C10_UnlockedRead ==
    /\ [](\A t \in Threads : Idle(t) => ENABLED getOutputHandler(t))
    /\ [][\A t \in Threads :
             (pc[t] = "idle" /\ pc'[t] = "ret_handler")
             => /\ ret'[t] = <<output_handler_>>
                /\ output_handler_' = output_handler_
                /\ lock_' = lock_]_vars

\* While one thread is inside a sink method with the mutex held, another holds
\* the h1 that getOutputHandler() gave it.
C10_Witness ==
    \E t, u \in Threads :
        /\ pc[u] = "in_sink"
        /\ lock_
        /\ pc[t] = "ret_handler"
        /\ ret[t] = <<"h1">>

(***************************************************************************)
(* Properties of log() at levels that are not DEBUG, INFO, WARN or ERROR.  *)
(***************************************************************************)
\* The log calls in progress whose level is NONE or no enumerator at all,
\* made with a handler installed.
UnrecognisedCalls ==
    {t \in Threads : /\ pc[t] \in LogPcs
                     /\ level[t] \notin DEBUG..ERROR
                     /\ AtGate(t).cur # NULL}

\* One call, of error(), on the handler found at the gate.
OneErrorCall(t) ==
    /\ Len(calls[t]) = 1
    /\ calls[t][1].m = "error"
    /\ calls[t][1].h = AtGate(t).cur

\* C11 as stated: a log call at NONE or at any value outside the enumeration,
\* made with a handler installed, passes the gate whatever the minimum level
\* and is dispatched to error() once.
C11_UnrecognisedIsError_AsStated ==
    \A t \in UnrecognisedCalls :
        pc[t] \in {"in_sink", "log_end"} => OneErrorCall(t)

\* C11: a log call at NONE or at a value above NONE, made with a handler
\* installed, passes the gate whatever the minimum level, NONE included, and
\* is dispatched to error() once; a call at a value below DEBUG passes the
\* gate for no minimum level and is dispatched nowhere.  Either way the call
\* goes on to its return.
C11_UnrecognisedIsError ==
    \A t \in UnrecognisedCalls :
        /\ level[t] >= NONE =>
              /\ pc[t] \in {"in_sink", "log_end"} => OneErrorCall(t)
              /\ pc[t] \in {"log_format", "log_switch"} => calls[t] = <<>>
        /\ level[t] < DEBUG => pc[t] = "log_end" /\ calls[t] = <<>>
        /\ pc[t] = "log_end" => ENABLED logReturn(t)

\* A log call at a value above NONE, made with minimum level NONE, has
\* returned from h1's error method.
C11_Witness ==
    \E t \in Threads :
        /\ pc[t] = "log_end"
        /\ level[t] = NONE + 1
        /\ AtGate(t).lvl = NONE
        /\ calls[t] = <<[h |-> "h1", m |-> "error", text |-> text[t]]>>

(***************************************************************************)
(* Termination.                                                            *)
(***************************************************************************)
\* Thread t can take a step of the call it is in.
CanStep(t) == ENABLED (LockedCall(t) \/ UnlockedCall(t) \/ Proceed(t))

Dispatched(t) == pc[t] \in {"log_switch", "in_sink", "log_end"} /\ text[t] # <<>>

\* The value of showLineNumbers' last call, off when there was none.
FlagInEffect == IF trail = <<>> THEN FALSE ELSE trail[1].show

DigitValue(c) == CHOOSE k \in 0..9 : DigitChars[k + 1] = c

RECURSIVE NumeralValue(_)
NumeralValue(d) ==
    IF d = <<>> THEN 0
    ELSE 10 * NumeralValue(SubSeq(d, 1, Len(d) - 1)) + DigitValue(d[Len(d)])

\* d is the decimal numeral of n: digits only, no leading zero, value n.
IsNumeralOf(d, n) ==
    /\ d # <<>>
    /\ \A i \in 1..Len(d) : \E k \in 1..10 : d[i] = DigitChars[k]
    /\ Len(d) > 1 => d[1] # "0"
    /\ NumeralValue(d) = n

\* b is the final component of path p: it holds no separator, p ends with
\* it, and it is all of p or comes right after a separator.
IsFinalComponent(b, p) ==
    /\ Len(b) <= Len(p)
    /\ \A i \in 1..Len(b) : b[i] # "/"
    /\ SubSeq(p, Len(p) - Len(b) + 1, Len(p)) = b
    /\ Len(b) < Len(p) => p[Len(p) - Len(b)] = "/"

\* The first n characters of s read "line <line> in <basename(file)>: ".
HasLinePrefix(s, n, a) ==
    \E d \in 1..(a.line + 1), b \in 0..Len(a.file) :
        /\ n = 11 + d + b
        /\ Len(s) >= n
        /\ SubSeq(s, 1, 5) = <<"l", "i", "n", "e", " ">>
        /\ SubSeq(s, 6 + d, 9 + d) = <<" ", "i", "n", " ">>
        /\ SubSeq(s, 10 + d + b, 11 + d + b) = <<":", " ">>
        /\ IsNumeralOf(SubSeq(s, 6, 5 + d), a.line)
        /\ IsFinalComponent(SubSeq(s, 10 + d, 9 + d + b), a.file)

\* m is the formatted message f or a cut of it: f's first characters.
IsFirstPartOf(m, f) == Len(m) <= Len(f) /\ m = SubSeq(f, 1, Len(m))

\* C13: with line numbers on at the time of a dispatched log call the text
\* handed to the handler is "line <line> in <basename(file)>: " followed by
\* the formatted message, basename being the final component of the file
\* the caller gave; with line numbers off it is the formatted message alone.
\* The flag in effect is the last value showLineNumbers() was called with,
\* off by default.
C13_LinePrefix ==
    \A t \in Threads :
        Dispatched(t) =>
            LET a == site[t][1] IN
            /\ AtGate(t).show = FlagInEffect
            /\ FlagInEffect =>
                  \E n \in 12..Len(ss[t]) :
                      /\ HasLinePrefix(ss[t], n, a)
                      /\ IsFirstPartOf(SubSeq(ss[t], n + 1, Len(ss[t])), a.msg)
                      /\ Len(a.msg) < MAX_BUFFER_SIZE => Len(ss[t]) = n + Len(a.msg)
            /\ ~FlagInEffect => /\ IsFirstPartOf(ss[t], a.msg)
                                /\ Len(a.msg) < MAX_BUFFER_SIZE => ss[t] = a.msg

\* A log call made at line 120 of /o/s/b with line numbers on is inside the
\* sink method with "line 120 in b: " and its message of one character.
C13_Witness ==
    \E t \in Threads :
        /\ pc[t] = "in_sink"
        /\ FlagInEffect
        /\ site[t][1].line = 120
        /\ site[t][1].file = <<"/", "o", "/", "s", "/", "b">>
        /\ Len(site[t][1].msg) = 1
        /\ ss[t] = <<"l", "i", "n", "e", " ", "1", "2", "0", " ", "i", "n", " ",
                     "b", ":", " ", "1">>

\* The number of characters of a formatted message f that fit in buf.
Fitting(f) == IF Len(f) <= MAX_BUFFER_SIZE - 1 THEN Len(f) ELSE MAX_BUFFER_SIZE - 1

\* C14: the message part of a dispatched text is the whole formatted string
\* when that has at most MAX_BUFFER_SIZE - 1 characters and its first
\* MAX_BUFFER_SIZE - 1 characters otherwise; the line prefix in front of it is
\* never cut; and a cut message is dispatched like any other: one sink call,
\* and the call goes on to its return.
C14_Truncation ==
    \A t \in Threads :
        Dispatched(t) =>
            LET f == site[t][1].msg
                k == Fitting(f)
                n == Len(ss[t]) - k
            IN  /\ n >= 0
                /\ SubSeq(ss[t], n + 1, Len(ss[t])) = SubSeq(f, 1, k)
                /\ IF AtGate(t).show THEN HasLinePrefix(ss[t], n, site[t][1])
                                     ELSE n = 0
                /\ pc[t] = "log_switch" => calls[t] = <<>>
                /\ pc[t] \in {"in_sink", "log_end"} => Len(calls[t]) = 1
                /\ pc[t] = "log_end" => ENABLED logReturn(t)

\* A message of MAX_BUFFER_SIZE + 1 characters, logged with line numbers on,
\* has been through the sink method: the text had the whole prefix and
\* MAX_BUFFER_SIZE - 1 characters of the message.
C14_Witness ==
    \E t \in Threads :
        /\ pc[t] = "log_end"
        /\ Len(calls[t]) = 1
        /\ AtGate(t).show
        /\ Len(site[t][1].msg) = MAX_BUFFER_SIZE + 1
        /\ Len(ss[t]) = Len(LinePrefix(site[t][1])) + MAX_BUFFER_SIZE - 1

(***************************************************************************)
(* ompl::msg::OutputHandlerFile.  One object, used by one caller at a      *)
(* time; the file is a sequence of characters, a tag counting as one.      *)
(***************************************************************************)
NUL == "NUL"
NewLine == "\n"

SinkMethods == {"error", "warn", "inform", "debug"}

\* The std::string arguments of the sink calls.
Texts == { <<>>, <<"a">>, <<"a", "b">>, <<"a", NUL, "b">> }

FileNames == {"log.txt"}

\* What the file can hold before it is opened.
OldContents == { <<>>, <<"o", NewLine>> }

\* The format strings of the four sink methods, up to their %s.
Tag(m) ==
    CASE m = "error"  -> "Error:   "
      [] m = "warn"   -> "Warning: "
      [] m = "inform" -> "Info:    "
      [] m = "debug"  -> "Debug:   "

\* text.c_str() read by %s: the characters before the first null character.
RECURSIVE CStr(_)
CStr(str) ==
    IF str = <<>> \/ Head(str) = NUL THEN <<>>
    ELSE <<Head(str)>> \o CStr(Tail(str))

\* fprintf(file_, "<tag>%s\n", text.c_str())
Fprintf(m, str) == <<Tag(m)>> \o CStr(str) \o <<NewLine>>

InitFile ==
    /\ DOHConstructed
    /\ constructed = TRUE
    /\ nConstructed = 1
    /\ LocalsInit
    /\ disk \in OldContents

\* OutputHandlerFile::OutputHandlerFile: fopen(filename, "a") gives a
\* stream positioned at the end of the file, or fails.
OutputHandlerFileCtor(filename, opened) ==
    /\ fh = "unborn"
    /\ fh' = "alive"
    /\ file_' = IF opened THEN "FILE" ELSE NULL
    /\ cerr' = IF opened THEN cerr
               ELSE Append(cerr, [what |-> "Unable to open log file", of |-> filename])
    /\ fghost' = [fghost EXCEPT !.disk0 = disk]
    /\ UNCHANGED <<fbuf, disk>>

\* A sink method that does not test file_.
fileSinkUntested(m, str) ==
    /\ fh = "alive"
    /\ Len(fghost.calls) < MaxWrites
    /\ fghost' = [fghost EXCEPT !.calls = Append(@, [m |-> m, str |-> str])]
    /\ fbuf' = fbuf \o Fprintf(m, str)
    /\ fh' = "printed"
    /\ UNCHANGED <<file_, disk, cerr>>

\* OutputHandlerFile::error, warn, inform, debug: if (file_) fprintf(...)
fileSink(m, str) ==
    /\ fh = "alive"
    /\ Len(fghost.calls) < MaxWrites
    /\ fghost' = [fghost EXCEPT !.calls = Append(@, [m |-> m, str |-> str])]
    /\ IF file_ # NULL
       THEN /\ fbuf' = fbuf \o Fprintf(m, str)
            /\ fh' = "printed"
       ELSE /\ fbuf' = fbuf
            /\ fh' = "sink_end"
    /\ UNCHANGED <<file_, disk, cerr>>

\* fflush(file_)
fileSinkFlush ==
    /\ fh = "printed"
    /\ disk' = disk \o fbuf
    /\ fbuf' = <<>>
    /\ fh' = "sink_end"
    /\ UNCHANGED <<file_, cerr, fghost>>

\* The sink method returns.
fileSinkReturn ==
    /\ fh = "sink_end"
    /\ fh' = "alive"
    /\ UNCHANGED <<file_, fbuf, disk, cerr, fghost>>

\* The destructor calling fclose whatever file_ is.
OutputHandlerFileDtorUntested(closed) ==
    /\ fh = "alive"
    /\ fh' = "destroyed"
    /\ fghost' = [fghost EXCEPT !.closes = @ + 1]
    /\ disk' = disk \o fbuf
    /\ fbuf' = <<>>
    /\ cerr' = IF closed THEN cerr ELSE Append(cerr, [what |-> "Error closing logfile", of |-> ""])
    /\ UNCHANGED file_

\* OutputHandlerFile::~OutputHandlerFile: if (file_) if (fclose(file_) != 0)
\* ...; fclose writes what is left in the buffer and reports success or not.
OutputHandlerFileDtor(closed) ==
    /\ fh = "alive"
    /\ fh' = "destroyed"
    /\ IF file_ # NULL
       THEN /\ fghost' = [fghost EXCEPT !.closes = @ + 1]
            /\ disk' = disk \o fbuf
            /\ fbuf' = <<>>
            /\ cerr' = IF closed THEN cerr
                       ELSE Append(cerr, [what |-> "Error closing logfile", of |-> ""])
       ELSE UNCHANGED <<fghost, disk, fbuf, cerr>>
    /\ UNCHANGED file_

routerAndGhost == <<routerVars, lock_, initVars, pc, localVars, trail, ncalls,
                    caller, fmtVars>>

NextFile ==
    \/ \E f \in FileNames, opened \in BOOLEAN :
          OutputHandlerFileCtor(f, opened) /\ UNCHANGED routerAndGhost
    \/ \E m \in SinkMethods, str \in Texts :
          fileSink(m, str) /\ UNCHANGED routerAndGhost
    \/ fileSinkFlush /\ UNCHANGED routerAndGhost
    \/ fileSinkReturn /\ UNCHANGED routerAndGhost
    \/ \E closed \in BOOLEAN :
          OutputHandlerFileDtor(closed) /\ UNCHANGED routerAndGhost

SpecFile == InitFile /\ [][NextFile]_vars

(***************************************************************************)
(* Properties of OutputHandlerFile.                                        *)
(***************************************************************************)
\* The diagnostics on std::cerr, by what they say.
Diagnostics(what) == {i \in 1..Len(cerr) : cerr[i].what = what}

\* The object has been constructed and its fopen failed / succeeded.
OpenFailed == fh # "unborn" /\ file_ = NULL
Opened == fh # "unborn" /\ file_ # NULL

\* C15: a file handler whose open failed is inert for its whole lifetime.
\* Its construction completes with one diagnostic on std::cerr naming the
\* file; from then on, through every sink call and the destruction, nothing
\* is written to the file or left in a buffer, std::cerr gets nothing more,
\* and no fclose is made.
C15_InertWhenOpenFailed ==
    /\ fh = "unborn" => cerr = <<>>
    /\ OpenFailed =>
          /\ Len(cerr) = 1
          /\ cerr[1].what = "Unable to open log file"
          /\ cerr[1].of \in FileNames
          /\ disk = fghost.disk0
          /\ fbuf = <<>>
          /\ fghost.closes = 0
          /\ fh # "printed"

\* A handler whose open failed has been destroyed after MaxWrites sink calls.
C15_Witness ==
    /\ fh = "destroyed"
    /\ file_ = NULL
    /\ Len(fghost.calls) = MaxWrites
    /\ \E i \in 1..Len(fghost.calls) : fghost.calls[i].str # <<>>

\* The fixed tag of each sink method.
TagOfMethod(m) ==
    IF m = "error" THEN "Error:   "
    ELSE IF m = "warn" THEN "Warning: "
    ELSE IF m = "inform" THEN "Info:    "
    ELSE "Debug:   "

\* The lines of the sink calls c, in call order: tag, text, newline.
RECURSIVE TaggedLines(_)
TaggedLines(c) ==
    IF c = <<>> THEN <<>>
    ELSE <<TagOfMethod(Head(c).m)>> \o Head(c).str \o <<NewLine>>
             \o TaggedLines(Tail(c))

\* C16: for a file handler whose open succeeded, N sink calls leave the file
\* equal to its content when it was opened followed by N lines in call
\* order, each the tag of the method called, the text and a newline; a line
\* is in the file before its sink call returns, and the destruction adds
\* nothing.
C16_TaggedLinesOnDisk ==
    Opened =>
        /\ fh \in {"sink_end", "alive", "destroyed"} =>
              /\ disk = fghost.disk0 \o TaggedLines(fghost.calls)
              /\ fbuf = <<>>
        /\ fh = "printed" =>
              disk \o fbuf = fghost.disk0 \o TaggedLines(fghost.calls)

\* C17 as stated: every constructed file handler's lifetime holds one fclose,
\* made at its destruction.
C17_ClosedOnce_AsStated ==
    /\ fh # "destroyed" => fghost.closes = 0
    /\ fh = "destroyed" => fghost.closes = 1

\* C17: a file handler whose open succeeded closes its file once, at its
\* destruction; one whose open failed has no file and makes no fclose.  An
\* fclose that reports an error gives one diagnostic on std::cerr, and the
\* file is not closed again.
C17_ClosedOnce ==
    /\ fh # "destroyed" => fghost.closes = 0 /\ Diagnostics("Error closing logfile") = {}
    /\ fh = "destroyed" =>
          /\ fghost.closes = IF file_ # NULL THEN 1 ELSE 0
          /\ Cardinality(Diagnostics("Error closing logfile")) <= fghost.closes
    /\ Opened => Diagnostics("Unable to open log file") = {}

\* A handler whose open succeeded has been destroyed by an fclose that
\* reported an error.
C17_Witness ==
    /\ fh = "destroyed"
    /\ file_ # NULL
    /\ fghost.closes = 1
    /\ cerr = <<[what |-> "Error closing logfile", of |-> ""]>>

(***************************************************************************)
(* Frame properties of the router operations.                              *)
(***************************************************************************)
\* Thread t takes this step, inside the call it has made.
StepInCall(t) == InCall(t) /\ (pc'[t] # pc[t] \/ caller'[t] # caller[t])

\* The level of the last setLogLevel() call that returned, DEBUG when there
\* was none.
LastSetLevel == IF trail = <<>> THEN DEBUG ELSE trail[1].level

\* C18: each router operation changes its own fields only.  The steps of
\* log, getOutputHandler and getLogLevel leave the four router fields alone;
\* setLogLevel changes the minimum level only, showLineNumbers the flag only,
\* useOutputHandler, noOutputHandler and restorePreviousOutputHandler the
\* two handler fields only; a step that belongs to no call changes none.  So
\* the minimum level is the one of the last setLogLevel, and that is what
\* getLogLevel loads.
C18_FrameEffects ==
    [][/\ \A t \in Threads :
             StepInCall(t) =>
                 /\ caller[t].op \in {"log", "getOutputHandler", "getLogLevel"}
                       => UNCHANGED routerVars
                 /\ caller[t].op = "setLogLevel"
                       => UNCHANGED <<output_handler_, previous_output_handler_,
                                      showLineNumbers_>>
                 /\ caller[t].op = "showLineNumbers"
                       => UNCHANGED <<output_handler_, previous_output_handler_,
                                      logLevel_>>
                 /\ caller[t].op \in {"useOutputHandler", "noOutputHandler",
                                      "restorePreviousOutputHandler"}
                       => UNCHANGED <<logLevel_, showLineNumbers_>>
                 /\ caller[t].op = "getLogLevel" /\ pc'[t] = "ret_level"
                       => ret'[t] = <<LastSetLevel>>
       /\ (\A t \in Threads : ~StepInCall(t)) => UNCHANGED routerVars
       /\ logLevel_ = LastSetLevel
       /\ logLevel_' = LastSetLevel'
      ]_vars

\* getLogLevel() has loaded NONE, the level of the last setLogLevel(), after
\* the handler was changed and the line numbers were switched on.
C18_Witness ==
    \E t \in Threads :
        /\ pc[t] = "ret_level"
        /\ ret[t] = <<NONE>>
        /\ LastSetLevel = NONE
        /\ output_handler_ = "h1"
        /\ previous_output_handler_ = NULL
        /\ showLineNumbers_

(***************************************************************************)
(* Which handler the router calls.                                         *)
(***************************************************************************)
\* The handlers a thread is executing a sink method of, for the router.
Executing == {calls[t][1].h : t \in InSink}

\* The handlers the router holds: the two fields, the temporary of a
\* std::swap in progress and the argument of a useOutputHandler() in progress.
Held ==
    {output_handler_, previous_output_handler_}
        \cup {tmp[u] : u \in {v \in Threads : pc[v] \in {"swap_move", "swap_store"}}}
        \cup {oh[u] : u \in {v \in Threads : pc[v] = "use_install"}}

\* The arguments of the useOutputHandler() calls that begin in this step.
Named ==
    {oh'[u] : u \in {v \in Threads : pc[v] = "idle" /\ pc'[v] = "use_install"}}

\* C19: the router calls the handler that is current at the moment of the
\* dispatch and no other.  A handler that is not current has no thread
\* inside a sink method the router called, and none enters one; between two
\* calls the handler operations have replaced it and returned.  A handler
\* the router does not hold, in neither field once the operations have
\* returned, is held again only as the argument of a new useOutputHandler().
C19_OnlyCurrentHandlerInvoked ==
    /\ [](Executing \subseteq {output_handler_} \ {NULL})
    /\ [][/\ Executing' \subseteq ({output_handler_} \cap {output_handler_'})
          /\ Held' \subseteq Held \cup {NULL} \cup Named
         ]_vars

\* A thread is inside a sink method of h1, the current handler, once h2 was
\* current and was replaced and std is in neither field.
C19_Witness ==
    \E t \in Threads :
        /\ pc[t] = "in_sink"
        /\ calls[t][1].h = "h1"
        /\ output_handler_ = "h1"
        /\ previous_output_handler_ = "h2"

(***************************************************************************)
(* A sink method that calls the router.  log() holds the scoped_lock of    *)
(* USE_DOH while the sink method runs, and the call made from inside it    *)
(* runs USE_DOH again on the thread that owns the mutex.  boost::mutex is  *)
(* not recursive and lock() requires that the calling thread does not own  *)
(* it: what the second lock() does is not defined.  Where the mutex under  *)
(* it waits for its owner the call never goes on, and that is the absence  *)
(* of a step; where the mutex under it checks for its owner, lock() throws *)
(* boost::lock_error.  getOutputHandler() runs no USE_DOH.                 *)
(***************************************************************************)
LockTaking == Operations \ {"getOutputHandler"}

\* The call thread t is in was made from inside a sink method.
Nested(t) == pc[t] = "in_sink" /\ caller[t].by = "sink"

\* Thread t, which owns the mutex, stands at the USE_DOH of a nested call.
Relocking(t) == Nested(t) /\ caller[t].op \in LockTaking

\* Thread t stands at the USE_DOH of a call the application made.
Waiting(t) == Idle(t) /\ caller[t].by = "app" /\ caller[t].op \in LockTaking

\* The sink method log() called on thread t calls router operation op.
sinkCalls(t, op) ==
    /\ pc[t] = "in_sink"
    /\ caller[t] = [by |-> "app", op |-> "log"]
    /\ caller' = [caller EXCEPT ![t] = [by |-> "sink", op |-> op]]
    /\ UNCHANGED <<routerVars, lock_, initVars, pc, localVars, trail, ncalls,
                   fmtVars, fileVars>>

\* getOutputHandler() called from inside the sink method: the field is read
\* and the call returns to the sink method.
sinkGetOutputHandler(t) ==
    /\ Nested(t)
    /\ caller[t].op = "getOutputHandler"
    /\ constructed
    /\ ret' = [ret EXCEPT ![t] = <<output_handler_>>]
    /\ caller' = [caller EXCEPT ![t] = [by |-> "app", op |-> "log"]]
    /\ UNCHANGED <<routerVars, lock_, initVars, pc, level, oh, tmp, text,
                   calls, gate, trail, ncalls, fmtVars, fileVars>>

\* USE_DOH of a nested call on a mutex that checks for its owner: lock()
\* throws, the nested call is left before its body, and the sink method goes
\* on from the call.
relockThrows(t) ==
    /\ Relocking(t)
    /\ lock_
    /\ caller' = [caller EXCEPT ![t] = [by |-> "app", op |-> "log"]]
    /\ UNCHANGED <<routerVars, lock_, initVars, pc, localVars, trail, ncalls,
                   fmtVars, fileVars>>

\* Thread t goes on with the operation it is in; a sink method returns when
\* the call it made has.
ProceedReentrant(t) ==
    /\ ~Nested(t)
    /\ Proceed(t)

NextReentrant ==
    \E t \in Threads :
        \/ \E op \in Operations : call(t, op)
        \/ LockedCall(t)
        \/ UnlockedCall(t)
        \/ ProceedReentrant(t)
        \/ \E op \in Operations : sinkCalls(t, op)
        \/ sinkGetOutputHandler(t)
        \/ relockThrows(t)

SpecReentrant == Init /\ [][NextReentrant]_vars

C20_Relocking ==
    \E t \in Threads, u \in Threads :
        /\ t # u
        /\ Relocking(t)
        /\ caller[t].op = "log"
        /\ Waiting(u)

=============================================================================
